---- MODULE Spec2Model ----
(***************************************************************************)
(* Model of the vite plugin hono-file-route-generator.                      *)
(*                                                                         *)
(* Strings are sequences of tokens.  The characters the code looks at      *)
(* (".", "/", "\\", the quote, the newline) are always tokens of their own; *)
(* every other token is an opaque run of characters ("routes", "TS").      *)
(***************************************************************************)
EXTENDS Integers, Sequences, FiniteSets, TLC

VARIABLES
    generate,       \* options.generate: sequence of [folder, dest] in Object.keys order
    autoformat,     \* options.autoformat
    autoformatCommand, \* options.autoformatCommand (Undefined when not given)
    quotes,         \* options.quotes (Undefined when not given)
    sep,            \* path.sep of the platform: "/" (posix) or "\\" (win32)
    tree,           \* the file system: entries in directory-listing order
    content,        \* the bytes of each destination file
    pass,           \* pass[t][m]: the async callback of trigger t for mapping m
    triggers,       \* number of handleHotUpdate calls so far
    proc,           \* proc[t][m]: the child process exec() started for that pass
    envLeft,        \* file-system changes the environment may still make
    trigLeft,       \* hot updates the host may still report
    hist            \* history: what happened between the triggers

vars == <<generate, autoformat, autoformatCommand, quotes, sep, tree, content,
          pass, triggers, proc, envLeft, trigLeft, hist>>

\* ---------------------------------------------------------------- bounds

\* hot updates in the runs where triggers race on one mapping
MaxTriggers == 2

\* hot updates in the runs with several mappings and the formatter
MaxRounds == 1

\* files in the scanned tree of a single generation pass
MaxFiles == 2

\* changes the developer makes to the tree while triggers race
MaxEnv == 1

\* ------------------------------------------------------- string helpers

Undefined == "undefined"

Front(s) == SubSeq(s, 1, Len(s) - 1)

Last(s) == s[Len(s)]

\* String.prototype.split(d) for a one-character separator d
RECURSIVE SplitFrom(_, _, _)
SplitFrom(s, d, cur) ==
    IF s = <<>> THEN <<cur>>
    ELSE IF Head(s) = d THEN <<cur>> \o SplitFrom(Tail(s), d, <<>>)
    ELSE SplitFrom(Tail(s), d, Append(cur, Head(s)))

split(s, d) == SplitFrom(s, d, <<>>)

\* Array.prototype.join(d)
RECURSIVE join(_, _)
join(parts, d) ==
    IF parts = <<>> THEN <<>>
    ELSE IF Len(parts) = 1 THEN parts[1]
    ELSE parts[1] \o d \o join(Tail(parts), d)

\* String.prototype.replaceAll(pat, rep): left to right, non-overlapping
RECURSIVE replaceAll(_, _, _)
replaceAll(s, pat, rep) ==
    IF Len(s) < Len(pat) THEN s
    ELSE IF SubSeq(s, 1, Len(pat)) = pat
         THEN rep \o replaceAll(SubSeq(s, Len(pat) + 1, Len(s)), pat, rep)
         ELSE <<Head(s)>> \o replaceAll(Tail(s), pat, rep)

\* String.prototype.toLowerCase() on one token of the model's alphabet
LowerTok(t) ==
    CASE t = "TS" -> "ts"
      [] t = "Js" -> "js"
      [] t = "JS" -> "js"
      [] t = "A" -> "a"
      [] t = "README" -> "readme"
      [] OTHER -> t

toLowerCase(s) == [i \in 1..Len(s) |-> LowerTok(s[i])]

\* Number -> string inside a template literal
Digits == <<"0", "1", "2", "3", "4", "5", "6", "7", "8", "9">>

RECURSIVE decimal(_)
decimal(n) ==
    IF n < 10 THEN Digits[n + 1]
    ELSE decimal(n \div 10) \o Digits[(n % 10) + 1]

\* ------------------------------------------------------------ cleanupPath

cleanupPathNoBackslash(path) == replaceAll(path, <<"/", ".", "/">>, <<"/">>)

cleanupPath(path) ==
    replaceAll(replaceAll(path, <<"/", ".", "/">>, <<"/">>), <<"\\">>, <<"/">>)

\* ------------------------------------------------------ node's path module

\* path.resolve against the working directory: the segments below it
RECURSIVE normSegs(_, _)
normSegs(segs, acc) ==
    IF segs = <<>> THEN acc
    ELSE LET s == Head(segs) IN
         IF s = <<>> \/ s = <<".">> THEN normSegs(Tail(segs), acc)
         ELSE IF s = <<".", ".">>
              THEN normSegs(Tail(segs), IF acc = <<>> THEN acc ELSE Front(acc))
              ELSE normSegs(Tail(segs), Append(acc, s))

resolve(p) == normSegs(split(p, "/"), <<>>)

RECURSIVE commonLen(_, _)
commonLen(a, b) ==
    IF a = <<>> \/ b = <<>> \/ Head(a) # Head(b) THEN 0
    ELSE 1 + commonLen(Tail(a), Tail(b))

\* path.relative(from, to): up to the common ancestor, then down; joined by path.sep
relative(from, to) ==
    LET f == resolve(from)
        t == resolve(to)
        c == commonLen(f, t)
    IN join([i \in 1..(Len(f) - c) |-> <<".", ".">>] \o SubSeq(t, c + 1, Len(t)), <<sep>>)

\* ------------------------------------------------------------ file system

\* An entry of the tree: dir are the segments of its containing directory
\* below the working directory, name its own name.
File(dir, name) == [dir |-> dir, name |-> name, directory |-> FALSE]

Dir(dir, name) == [dir |-> dir, name |-> name, directory |-> TRUE]

dirExists(d) ==
    d = <<>> \/ \E i \in 1..Len(tree) : tree[i].directory /\ Append(tree[i].dir, tree[i].name) = d

fileIndex(d, n) ==
    {i \in 1..Len(tree) : ~tree[i].directory /\ tree[i].dir = d /\ tree[i].name = n}

isUnder(e, root) == Len(e.dir) >= Len(root) /\ SubSeq(e.dir, 1, Len(root)) = root

\* fs.readdir(folder, {recursive: true, withFileTypes: true}): the Dirents of
\* everything below folder, in listing order; parentPath is folder itself for
\* the top level and path.join(folder, sub) below it.
readdir(folder) ==
    LET root  == resolve(folder)
        under == SelectSeq(tree, LAMBDA e : isUnder(e, root))
    IN [i \in 1..Len(under) |->
          [name        |-> under[i].name,
           parentPath  |-> IF under[i].dir = root THEN folder ELSE join(under[i].dir, <<sep>>),
           isDirectory |-> under[i].directory]]

readdirFails(folder) == ~dirExists(resolve(folder))

\* ------------------------------------------------- the body of the callback

destination(m) == cleanupPath(generate[m].dest)

dPathArray(m) == Front(split(destination(m), "/"))

destinationPath(m) == join(dPathArray(m), <<"/">>)

\* .map(...).filter((paths) => !paths.directory)
files(dirents) ==
    SelectSeq([i \in 1..Len(dirents) |->
                  [name      |-> dirents[i].name,
                   path      |-> cleanupPath(dirents[i].parentPath),
                   directory |-> dirents[i].isDirectory]],
              LAMBDA f : ~f.directory)

\* filenameNoExtension.pop()?.toLowerCase()
fileExtension(file) == toLowerCase(Last(split(file.name, ".")))

\* the two early returns of the files.forEach callback
skipped(file) ==
    \/ fileExtension(file) = <<>>
    \/ (fileExtension(file) # <<"js">> /\ fileExtension(file) # <<"ts">>)

importOf(file, destPath) ==
    <<".", "/">> \o cleanupPath(relative(destPath, file.path)) \o <<"/">>
        \o join(Front(split(file.name, ".")), <<".">>)

RECURSIVE listOfImports(_, _)
listOfImports(fs, destPath) ==
    IF fs = <<>> THEN <<>>
    ELSE IF skipped(Head(fs)) THEN listOfImports(Tail(fs), destPath)
    ELSE <<importOf(Head(fs), destPath)>> \o listOfImports(Tail(fs), destPath)

\* quotes || "'"
quote == IF quotes = Undefined THEN "'" ELSE quotes

importsListFormattedZeroBased(list) ==
    [i \in 1..Len(list) |->
        <<"import ", "route", decimal(i - 1), " from ", quote>> \o list[i] \o <<quote, ";">>]
    \o << <<>> >>
    \o << <<"export default [">>
          \o join([j \in 1..Len(list) |-> <<"route", decimal(j)>>], <<", ">>)
          \o <<"];">> >>
    \o << <<>> >>

importsListFormatted(list) ==
    [i \in 1..Len(list) |->
        <<"import ", "route", decimal(i), " from ", quote>> \o list[i] \o <<quote, ";">>]
    \o << <<>> >>
    \o << <<"export default [">>
          \o join([j \in 1..Len(list) |-> <<"route", decimal(j)>>], <<", ">>)
          \o <<"];">> >>
    \o << <<>> >>

generatedJsTsFile(dirents, m) ==
    join(importsListFormatted(listOfImports(files(dirents), destinationPath(m))), <<"\n">>)

\* ---------------------------------------------------------- configurations

S(dirname) == <<dirname>>

\* generate: { './routes': './routes/api.ts' }
ReadmeConfig ==
    << [folder |-> <<".", "/", "routes">>,
        dest   |-> <<".", "/", "routes", "/", "api", ".", "ts">>] >>

\* a destination in a sibling directory of the source, written with a "/./"
SiblingConfig ==
    << [folder |-> <<".", "/", "lib">>,
        dest   |-> <<".", "/", "out", "/", ".", "/", "gen", ".", "js">>] >>

TwoConfig == ReadmeConfig \o SiblingConfig

Mappings == DOMAIN generate

Triggers == 1..(IF MaxTriggers > MaxRounds THEN MaxTriggers ELSE MaxRounds)

destFile(m) == resolve(destination(m))

DestFiles == {destFile(m) : m \in Mappings}

\* the directories every initial tree has
BaseDirs ==
    << Dir(<<>>, S("routes")),
       Dir(<<S("routes")>>, S("hi")),
       Dir(<<S("routes")>>, S("hello")),
       Dir(<<S("routes")>>, <<"old", ".", "js">>),
       Dir(<<>>, S("lib")),
       Dir(<<S("lib")>>, S("x")),
       Dir(<<>>, S("out")) >>

HiGet == File(<<S("routes"), S("hi")>>, <<"get", ".", "ts">>)

HelloGet == File(<<S("routes"), S("hello")>>, <<"get", ".", "ts">>)

LibName == File(<<S("lib"), S("x")>>, <<"name", ".", "js">>)

\* the files a scanned tree may hold
FilePool ==
    { HiGet, HelloGet, LibName,
      File(<<S("routes")>>, <<"A", ".", "TS">>),
      File(<<S("routes")>>, <<"b", ".", "Js">>),
      File(<<S("routes")>>, <<"view", ".", "jsx">>),
      File(<<S("routes")>>, <<"page", ".", "tsx">>),
      File(<<S("routes")>>, <<"mod", ".", "mjs">>),
      File(<<S("routes")>>, <<"README">>),
      File(<<S("routes")>>, <<"ts">>),
      File(<<S("routes"), S("hi")>>, <<"JS">>),
      File(<<S("routes")>>, <<"notes", ".">>),
      File(<<S("routes")>>, <<"data", ".", "backup", ".", "ts">>),
      File(<<S("routes")>>, <<"api", ".", "ts">>),
      File(<<S("lib")>>, <<"util", ".", "TS">>),
      File(<<S("lib"), S("x")>>, <<"README">>) }

\* sequences without repetition of at most n files of the pool
RECURSIVE Listings(_)
Listings(n) ==
    IF n = 0 THEN {<<>>}
    ELSE LET shorter == Listings(n - 1)
         IN shorter \cup {Append(l, f) : l \in {x \in shorter : Len(x) = n - 1}, f \in FilePool}

InjectiveListings(n) ==
    {l \in Listings(n) : \A i, j \in 1..Len(l) : i # j => l[i] # l[j]}

NoPass == [pc |-> "none", listing |-> <<>>, text |-> <<>>]

NoProc == [state |-> "none", command |-> <<>>, spawned |-> 0]

\* the tree without entry e and, when e is a directory, without all below it
without(tr, e) ==
    LET gone == Append(e.dir, e.name)
    IN SelectSeq(tr, LAMBDA x : x # e /\ ~(e.directory /\ isUnder(x, gone)))

ReadmeTree == BaseDirs \o <<HiGet, HelloGet, LibName>>

InitRest ==
    /\ content = [d \in DestFiles |-> IF fileIndex(Front(d), Last(d)) # {} THEN <<"stale">> ELSE <<>>]
    /\ pass = [t \in Triggers |-> [m \in Mappings |-> NoPass]]
    /\ proc = [t \in Triggers |-> [m \in Mappings |-> NoProc]]
    /\ triggers = 0
    /\ hist = [overlap   |-> FALSE,
               changedAt |-> {},
               snapshot  |-> content,
               lastData  |-> [d \in DestFiles |-> <<>>],
               lastClose |-> [d \in DestFiles |-> <<>>]]

\* several mappings and the formatter; a source or destination directory may be missing
Init ==
    /\ generate \in {ReadmeConfig, TwoConfig}
    /\ autoformat \in BOOLEAN
    /\ autoformatCommand \in IF autoformat THEN {Undefined, "eslint --fix"} ELSE {Undefined}
    /\ quotes = Undefined
    /\ sep = "/"
    /\ tree \in {ReadmeTree} \cup
                {without(ReadmeTree, Dir(<<>>, S(d))) : d \in {"routes", "lib", "out"}}
    /\ envLeft = 0
    /\ trigLeft = MaxRounds
    /\ InitRest

\* triggers racing on the README's mapping while the developer edits the tree
InitRace ==
    /\ generate = ReadmeConfig
    /\ autoformat = FALSE
    /\ autoformatCommand = Undefined
    /\ quotes = Undefined
    /\ sep = "/"
    /\ tree = ReadmeTree
    /\ envLeft = MaxEnv
    /\ trigLeft = MaxTriggers
    /\ InitRest

\* one generation pass over every listing of at most MaxFiles files
InitGen ==
    /\ generate \in {ReadmeConfig, SiblingConfig}
    /\ autoformat = FALSE
    /\ autoformatCommand = Undefined
    /\ quotes \in {Undefined, "\"", "'"}
    /\ sep \in {"/", "\\"}
    /\ tree \in {BaseDirs \o l : l \in InjectiveListings(MaxFiles)}
    /\ envLeft = 0
    /\ trigLeft = 1
    /\ InitRest

\* ------------------------------------------------------------------ actions

config == <<generate, autoformat, autoformatCommand, quotes, sep>>

inFlight(p) == p.pc \in {"readdir", "open", "data", "close"}

someInFlight == \E t \in Triggers, m \in Mappings : inFlight(pass[t][m])

\* Object.keys(generate).forEach(async (folder) => ...): one callback per key,
\* none awaited; each runs to its first await, the pending fs.readdir
startedBy(t) == [m \in Mappings |-> [NoPass EXCEPT !.pc = "readdir"]]

handleHotUpdate ==
    /\ trigLeft > 0
    /\ trigLeft' = trigLeft - 1
    /\ triggers' = triggers + 1
    /\ pass' = [pass EXCEPT ![triggers + 1] = startedBy(triggers + 1)]
    /\ hist' = [hist EXCEPT !.overlap = @ \/ someInFlight,
                            !.snapshot = content]
    /\ UNCHANGED <<config, tree, content, proc, envLeft>>

\* fs.readdir resolves: lines 88-109 run and fs.writeFile is called
ReaddirResolve(t, m) ==
    /\ pass[t][m].pc = "readdir"
    /\ ~readdirFails(generate[m].folder)
    /\ LET dirents == readdir(generate[m].folder)
       IN pass' = [pass EXCEPT ![t][m] =
                      [pc |-> "open", listing |-> dirents,
                       text |-> generatedJsTsFile(dirents, m)]]
    /\ UNCHANGED <<config, tree, content, triggers, proc, envLeft, trigLeft, hist>>

\* a rejected await ends the callback it is in, and no other
rejectedAll(t, m, why) == [pass EXCEPT ![t] = [n \in Mappings |-> [pass[t][n] EXCEPT !.pc = why]]]

rejected(t, m, why) == [pass EXCEPT ![t][m].pc = why]

\* fs.readdir rejects: the callback's promise rejects, nothing handles it
ReaddirReject(t, m) ==
    /\ pass[t][m].pc = "readdir"
    /\ readdirFails(generate[m].folder)
    /\ pass' = rejected(t, m, "scanRejected")
    /\ UNCHANGED <<config, tree, content, triggers, proc, envLeft, trigLeft, hist>>

\* fs.writeFile, first step: open(destination, 'w') creates or truncates the file
WriteFileOpen(t, m) ==
    /\ pass[t][m].pc = "open"
    /\ dirExists(Front(destFile(m)))
    /\ pass' = [pass EXCEPT ![t][m].pc = "data"]
    /\ tree' = IF fileIndex(Front(destFile(m)), Last(destFile(m))) # {} THEN tree
               ELSE Append(tree, File(Front(destFile(m)), Last(destFile(m))))
    /\ content' = [content EXCEPT ![destFile(m)] = <<>>]
    /\ UNCHANGED <<config, triggers, proc, envLeft, trigLeft, hist>>

\* fs.writeFile rejects: the destination directory does not exist
WriteFileReject(t, m) ==
    /\ pass[t][m].pc = "open"
    /\ ~dirExists(Front(destFile(m)))
    /\ pass' = rejected(t, m, "writeRejected")
    /\ UNCHANGED <<config, tree, content, triggers, proc, envLeft, trigLeft, hist>>

\* the bytes of text laid over the file from offset 0
overlay(old, text) == text \o SubSeq(old, Len(text) + 1, Len(old))

\* fs.writeFile, second step: write the whole text at the start of the file
WriteFileData(t, m) ==
    /\ pass[t][m].pc = "data"
    /\ pass' = [pass EXCEPT ![t][m].pc = "close"]
    /\ content' = [content EXCEPT ![destFile(m)] = overlay(@, pass[t][m].text)]
    /\ hist' = [hist EXCEPT !.lastData[destFile(m)] = <<t, m>>]
    /\ UNCHANGED <<config, tree, triggers, proc, envLeft, trigLeft>>

\* exec(autoformatCommand || `prettier "${destination}" --write`, callback)
execCommand(m) ==
    IF autoformatCommand = Undefined
    THEN <<"prettier ", "\"">> \o destination(m) \o <<"\"", " --write">>
    ELSE <<autoformatCommand>>

\* if (!autoformat) return;
spawnsFormatterAlways == TRUE

spawnsFormatter == autoformat

\* fs.writeFile, last step: close; the await returns, lines 113-118 run
WriteFileClose(t, m) ==
    /\ pass[t][m].pc = "close"
    /\ pass' = [pass EXCEPT ![t][m].pc = "done"]
    /\ proc' = IF spawnsFormatter
               THEN [proc EXCEPT ![t][m] = [state |-> "running", command |-> execCommand(m),
                                            spawned |-> @.spawned + 1]]
               ELSE proc
    /\ hist' = [hist EXCEPT !.lastClose[destFile(m)] = <<t, m>>]
    /\ UNCHANGED <<config, tree, content, triggers, envLeft, trigLeft>>

\* the child process exits; the exec callback throws when err is set
ExecExit(t, m) ==
    /\ proc[t][m].state = "running"
    /\ \E outcome \in {"exited", "threw"} :
          proc' = [proc EXCEPT ![t][m].state = outcome]
    /\ UNCHANGED <<config, tree, content, pass, triggers, envLeft, trigLeft, hist>>

Addable == {File(<<S("routes")>>, <<"b", ".", "Js">>)}

\* the developer adds a route file (what makes the host report a hot update)
EnvAddFile ==
    /\ envLeft > 0
    /\ \E f \in Addable :
          /\ dirExists(f.dir)
          /\ fileIndex(f.dir, f.name) = {}
          /\ tree' = Append(tree, f)
    /\ envLeft' = envLeft - 1
    /\ hist' = [hist EXCEPT !.changedAt = @ \cup {triggers}]
    /\ UNCHANGED <<config, content, pass, triggers, proc, trigLeft>>

Removable == {HelloGet, Dir(<<>>, S("routes"))}

\* the developer removes a file, or a directory with everything below it
EnvRemove ==
    /\ envLeft > 0
    /\ \E e \in Removable :
          /\ \E i \in 1..Len(tree) : tree[i] = e
          /\ tree' = without(tree, e)
          /\ content' = [d \in DestFiles |->
                           IF e.directory /\ isUnder([dir |-> Front(d)], Append(e.dir, e.name))
                           THEN <<>> ELSE content[d]]
    /\ envLeft' = envLeft - 1
    /\ hist' = [hist EXCEPT !.changedAt = @ \cup {triggers}]
    /\ UNCHANGED <<config, pass, triggers, proc, trigLeft>>

PassStep(t, m) ==
    \/ ReaddirResolve(t, m)
    \/ ReaddirReject(t, m)
    \/ WriteFileOpen(t, m)
    \/ WriteFileReject(t, m)
    \/ WriteFileData(t, m)
    \/ WriteFileClose(t, m)

NextGen ==
    \/ handleHotUpdate
    \/ \E t \in Triggers, m \in Mappings : ReaddirResolve(t, m)
    \/ \E t \in Triggers, m \in Mappings : WriteFileOpen(t, m)
    \/ \E t \in Triggers, m \in Mappings : WriteFileData(t, m)
    \/ \E t \in Triggers, m \in Mappings : WriteFileClose(t, m)

NextRace ==
    \/ handleHotUpdate
    \/ \E t \in Triggers, m \in Mappings : ReaddirResolve(t, m)
    \/ \E t \in Triggers, m \in Mappings : ReaddirReject(t, m)
    \/ \E t \in Triggers, m \in Mappings : WriteFileOpen(t, m)
    \/ \E t \in Triggers, m \in Mappings : WriteFileReject(t, m)
    \/ \E t \in Triggers, m \in Mappings : WriteFileData(t, m)
    \/ \E t \in Triggers, m \in Mappings : WriteFileClose(t, m)
    \/ EnvAddFile
    \/ EnvRemove

Next ==
    \/ handleHotUpdate
    \/ \E t \in Triggers, m \in Mappings : ReaddirResolve(t, m)
    \/ \E t \in Triggers, m \in Mappings : ReaddirReject(t, m)
    \/ \E t \in Triggers, m \in Mappings : WriteFileOpen(t, m)
    \/ \E t \in Triggers, m \in Mappings : WriteFileReject(t, m)
    \/ \E t \in Triggers, m \in Mappings : WriteFileData(t, m)
    \/ \E t \in Triggers, m \in Mappings : WriteFileClose(t, m)
    \/ \E t \in Triggers, m \in Mappings : ExecExit(t, m)

Spec == Init /\ [][Next]_vars

\* the steps node's event loop takes by itself: I/O completions and child exits
Progress ==
    \/ \E t \in Triggers, m \in Mappings : PassStep(t, m)
    \/ \E t \in Triggers, m \in Mappings : ExecExit(t, m)

\* Progress is enabled exactly when a request or a child is pending: each
\* pending step of a pass has its resolve or its reject enabled
StepPending ==
    \E t \in Triggers, m \in Mappings : inFlight(pass[t][m]) \/ proc[t][m].state = "running"

\* node completes every pending I/O request and reaps every child it spawned:
\* weak fairness of Progress, WF_vars(Progress), written out with StepPending
\* for ENABLED <<Progress>>_vars
FairSpec == Spec /\ ([]<>(~StepPending) \/ []<><<Progress>>_vars)

RaceSpec == InitRace /\ [][NextRace]_vars

GenSpec == InitGen /\ [][NextGen]_vars

\* =================================================================== claims

Passes == {<<t, m>> : t \in Triggers, m \in Mappings}

\* the callback has built its text and called fs.writeFile
TextBuilt(p) == p.pc \in {"open", "data", "close", "done", "writeRejected"}

Lines(text) == split(text, "\n")

IsImportLine(l) == Len(l) > 0 /\ l[1] = "import "

ImportLines(text) == SelectSeq(Lines(text), IsImportLine)

\* import routeK from <q>SPECIFIER<q>;
SpecifierOf(l) == SubSeq(l, 6, Len(l) - 2)

Specifiers(text) == [i \in 1..Len(ImportLines(text)) |-> SpecifierOf(ImportLines(text)[i])]

\* a name's extension, read off the name: what follows its last "."
DotPositions(name) == {i \in 1..Len(name) : name[i] = "."}

HasDot(name) == DotPositions(name) # {}

LastDot(name) == CHOOSE i \in DotPositions(name) : \A j \in DotPositions(name) : j <= i

Extension(name) == SubSeq(name, LastDot(name) + 1, Len(name))

Stem(name) == SubSeq(name, 1, LastDot(name) - 1)

IsJsOrTs(name) ==
    /\ HasDot(name)
    /\ Extension(name) \in {<<x>> : x \in {"js", "ts", "JS", "TS", "Js", "jS", "Ts", "tS"}}

\* (C1) Every manifest a pass builds holds exactly one import statement per
\* listed entry that is not a directory and whose extension, lower-cased, is
\* js or ts, and no other import statement.
C1_ImportsExactlyJsTs ==
    \A id \in Passes :
        LET p == pass[id[1]][id[2]] IN
        TextBuilt(p) =>
            Len(ImportLines(p.text)) =
                Len(SelectSeq(p.listing, LAMBDA d : ~d.isDirectory /\ IsJsOrTs(d.name)))

OrdinalNames == <<"1", "2", "3", "4", "5", "6", "7", "8", "9">>

RECURSIVE BindingList(_)
BindingList(n) ==
    IF n = 0 THEN <<>>
    ELSE IF n = 1 THEN <<"route", "1">>
    ELSE BindingList(n - 1) \o <<", ", "route", OrdinalNames[n]>>

ConfiguredQuote == IF quotes \in {"\"", "'"} THEN quotes ELSE "'"

C5_NoDotNoImport ==
    \A id \in Passes :
        LET p == pass[id[1]][id[2]] IN
        TextBuilt(p) =>
            p.text = generatedJsTsFile(
                        SelectSeq(p.listing, LAMBDA d : d.isDirectory \/ HasDot(d.name)), id[2])

Min(a, b) == IF a < b THEN a ELSE b

CommonPrefixLen(a, b) ==
    CHOOSE n \in 0..Min(Len(a), Len(b)) :
        /\ SubSeq(a, 1, n) = SubSeq(b, 1, n)
        /\ n = Min(Len(a), Len(b)) \/ a[n + 1] # b[n + 1]

\* the directory of the configured destination file
DestDir(m) == Front(resolve(generate[m].dest))

\* "./" + directory of e relative to the destination's + "/" + name less its extension
ExpectedSpecifier(e, m) ==
    LET c == CommonPrefixLen(DestDir(m), e.dir)
        up == [i \in 1..(Len(DestDir(m)) - c) |-> <<".", ".">>]
        down == SubSeq(e.dir, c + 1, Len(e.dir))
    IN <<".", "/">> \o join(up \o down, <<"/">>) \o <<"/">> \o Stem(e.name)

RECURSIVE IsSubsequence(_, _)
IsSubsequence(a, b) ==
    IF a = <<>> THEN TRUE
    ELSE IF b = <<>> THEN FALSE
    ELSE IF Head(a) = Head(b) THEN IsSubsequence(Tail(a), Tail(b))
    ELSE IsSubsequence(a, Tail(b))

JsTsFilesUnder(m) ==
    SelectSeq(tree, LAMBDA e : isUnder(e, resolve(generate[m].folder))
                               /\ ~e.directory /\ IsJsOrTs(e.name))

DotlessFilesUnder(m) ==
    SelectSeq(tree, LAMBDA e : isUnder(e, resolve(generate[m].folder))
                               /\ ~e.directory /\ ~HasDot(e.name))

\* (C6) When a pass has scanned and built its text, every file with a js or ts
\* extension is imported, in listing order, by the specifier "./" + its
\* directory relative to the destination's directory (forward slashes) + "/" +
\* its name less the final extension; these are all the imports when no file
\* of the listing lacks a ".".
C6_Specifiers ==
    \A id \in Passes :
        LET p    == pass[id[1]][id[2]]
            real == JsTsFilesUnder(id[2])
            want == [i \in 1..Len(real) |-> ExpectedSpecifier(real[i], id[2])]
        IN p.pc = "open" =>
              /\ IsSubsequence(want, Specifiers(p.text))
              /\ DotlessFilesUnder(id[2]) = <<>> => want = Specifiers(p.text)

\* on win32, with the destination in a sibling directory: "./../lib/x/name";
\* and an inner dot kept: "./data.backup"
C6_Witness ==
    \E id \in Passes :
        LET p == pass[id[1]][id[2]] IN
        /\ p.pc = "open"
        /\ sep = "\\"
        /\ generate = SiblingConfig
        /\ Specifiers(p.text) =
              << <<".", "/", ".", ".", "/", "lib", "/", "x", "/", "name">>,
                 <<".", "/", ".", ".", "/", "lib", "/", "util">> >>

\* (C7) A manifest with N >= 1 imports holds, after its `export default` line,
\* the line `export type Route = typeof route1 & ... & typeof routeN;`.
C7_TypeExport ==
    \A id \in Passes :
        LET p  == pass[id[1]][id[2]]
            ls == Lines(p.text)
        IN (p.pc = "done" /\ Len(ImportLines(p.text)) >= 1) =>
              \E i, j \in 1..Len(ls) :
                  /\ i < j
                  /\ ls[i] # <<>> /\ ls[i][1] = "export default ["
                  /\ ls[j] # <<>> /\ ls[j][1] = "export type Route = "

\* the README's two route files, as fs.readdir lists them for './routes'
ReadmeRoutes ==
    << [name |-> <<"get", ".", "ts">>, parentPath |-> <<"routes", "/", "hi">>, isDirectory |-> FALSE],
       [name |-> <<"get", ".", "ts">>, parentPath |-> <<"routes", "/", "hello">>, isDirectory |-> FALSE] >>

ReadmeManifest ==
    <<"import ", "route", "1", " from ", "'", ".", "/", "hi", "/", "get", "'", ";", "\n",
      "import ", "route", "2", " from ", "'", ".", "/", "hello", "/", "get", "'", ";", "\n",
      "\n",
      "export default [", "route", "1", ", ", "route", "2", "];", "\n">>

\* the files of a listing other than the generated api.ts itself
RouteFiles(listing) ==
    SelectSeq(listing, LAMBDA d : ~d.isDirectory /\ d.name # <<"api", ".", "ts">>)

\* (C3) With './routes' -> './routes/api.ts' and the route files hi/get.ts and
\* hello/get.ts, every trigger (the first, and every later one handled after
\* api.ts was written) writes the manifest importing './hi/get' as route1 and
\* './hello/get' as route2, exporting [route1, route2], and nothing else.
C3_ReadmeExample ==
    \A t \in Triggers :
        (/\ generate = ReadmeConfig
         /\ TextBuilt(pass[t][1])
         /\ RouteFiles(pass[t][1].listing) = ReadmeRoutes)
        => pass[t][1].text = ReadmeManifest

\* (C4) Two triggers handled one after the other to completion, with nothing
\* but the generator's own write changing the file system in between: the
\* destination after the second holds what it held after the first.
C4_Idempotent ==
    (/\ triggers >= 2
     /\ ~hist.overlap
     /\ hist.changedAt \cap {triggers - 1, triggers} = {}
     /\ \A m \in Mappings : pass[triggers - 1][m].pc = "done" /\ pass[triggers][m].pc = "done")
    => content = hist.snapshot

\* ---------------------------------------------------------------- C8

\* exec is called only with autoformat on, only by a pass whose write has
\* completed, and at most once per pass; a text handed to fs.writeFile is the
\* manifest of the listing the scan returned
C8_State ==
    \A id \in Passes :
        LET p == pass[id[1]][id[2]]
            c == proc[id[1]][id[2]]
        IN /\ c.state # "none" => (autoformat /\ p.pc = "done")
           /\ c.spawned <= 1
           /\ c.spawned = 1 <=> c.state # "none"
           /\ p.pc \in {"none", "readdir", "scanRejected"} => p.text = <<>>
           /\ TextBuilt(p) => p.text = generatedJsTsFile(p.listing, id[2])

\* the file is touched only by a pass that has scanned and built its text;
\* exec is called in the step that completes the write, which ends the pass:
\* the pass does not wait for the child to exit
C8_Step ==
    \A id \in Passes :
        LET t == id[1]
            m == id[2]
        IN /\ (pass[t][m].pc # pass'[t][m].pc /\ pass'[t][m].pc \in {"data", "close"})
                 => (TextBuilt(pass[t][m]) /\ pass'[t][m].text = pass[t][m].text)
           /\ content' # content
                 => \E w \in Passes : /\ pass[w[1]][w[2]].pc \in {"open", "data"}
                                      /\ pass'[w[1]][w[2]].pc \in {"data", "close"}
                                      /\ pass'[w[1]][w[2]].pc # pass[w[1]][w[2]].pc
           /\ (proc[t][m].state = "none" /\ proc'[t][m].state # "none")
                 => (/\ pass[t][m].pc = "close"
                     /\ pass'[t][m].pc = "done"
                     /\ proc'[t][m].state = "running")
           /\ (pass[t][m].pc = "close" /\ pass'[t][m].pc = "done" /\ autoformat)
                 => proc'[t][m].state = "running"
           /\ pass[t][m].pc = "done" => pass'[t][m].pc = "done"

\* (C8) Inside one pass the write is issued only after the scan completed and
\* the text was built; the formatter is started only with autoformat on, only
\* after that pass's write completed (never after a failed scan or write), at
\* most once; and the pass ends without waiting for the formatter.
C8_Ordering == [](C8_State) /\ [][C8_Step]_vars

\* a finished pass whose formatter is still running, and a failed pass with none
C8_Witness ==
    /\ autoformat
    /\ \E id \in Passes :
          pass[id[1]][id[2]].pc = "done" /\ proc[id[1]][id[2]].state = "running"
    /\ \E id \in Passes :
          pass[id[1]][id[2]].pc = "writeRejected" /\ proc[id[1]][id[2]].state = "none"

\* ---------------------------------------------------------------- C9

\* mapping m's own source and destination directories are there
Healthy(m) == ~readdirFails(generate[m].folder) /\ dirExists(Front(destFile(m)))

\* every trigger so far started a pass for every mapping; a pass whose scan
\* failed has built no text and written nothing
C9_State ==
    \A id \in Passes :
        LET p == pass[id[1]][id[2]] IN
        /\ id[1] <= triggers <=> p.pc # "none"
        /\ p.pc = "scanRejected" =>
              /\ p.text = <<>>
              /\ hist.lastData[destFile(id[2])] # id
              /\ hist.lastClose[destFile(id[2])] # id

\* a failed scan is final; the data step of a write puts the pass's manifest
\* at the start of its destination
C9_Step ==
    \A id \in Passes :
        LET t == id[1]
            m == id[2]
        IN /\ pass[t][m].pc = "scanRejected" => pass'[t][m].pc = "scanRejected"
           /\ (pass[t][m].pc = "data" /\ pass'[t][m].pc = "close")
                 => SubSeq(content'[destFile(m)], 1, Len(pass[t][m].text)) = pass[t][m].text

\* the scan of mapping n failed on trigger t, whose pass for m can proceed
FailedBeside(t, m, n) ==
    IF m \in Mappings /\ n \in Mappings /\ m # n
    THEN /\ pass[t][n].pc = "scanRejected"
         /\ pass[t][m].pc # "none"
         /\ Healthy(m)
    ELSE FALSE

Overwrote(t, m) ==
    IF m \in Mappings
    THEN /\ pass[t][m].pc = "done"
         /\ hist.lastClose[destFile(m)] # <<>>
    ELSE FALSE

Quiescent == triggers >= 1 /\ ~someInFlight

destExists(d) == fileIndex(Front(d), Last(d)) # {}

TextOf(id) == pass[id[1]][id[2]].text

\* (C10) Once the overlapping passes have finished, the destination holds
\* exactly the manifest of the pass whose write completed last.
C10_LastCloseWins ==
    \A d \in DestFiles :
        (Quiescent /\ destExists(d) /\ hist.lastClose[d] # <<>>)
        => content[d] = TextOf(hist.lastClose[d])

\* What the unserialized writes do leave behind: the destination starts with
\* the whole manifest of the pass whose data was written last; what follows,
\* if anything, is left over byte for byte from manifests of other passes;
\* and when no trigger arrived while a pass was in flight, the destination
\* is exactly the manifest of the last pass.
LastDataPrefix ==
    \A d \in DestFiles :
        (Quiescent /\ destExists(d) /\ hist.lastData[d] # <<>>)
        => LET w == TextOf(hist.lastData[d]) IN
           /\ Len(content[d]) >= Len(w)
           /\ SubSeq(content[d], 1, Len(w)) = w
           /\ \A i \in (Len(w) + 1)..Len(content[d]) :
                 \E id \in Passes : /\ id # hist.lastData[d]
                                    /\ i <= Len(TextOf(id))
                                    /\ TextOf(id)[i] = content[d][i]
           /\ ~hist.overlap => (content[d] = w /\ hist.lastData[d] = hist.lastClose[d])

====
